---- MODULE Spec2Model ----
(***************************************************************************)
(* Model of sync-ppt-with-excel.py: sync_excel_to_ppt reconciles the rows  *)
(* of a worksheet against the tables of a slide deck.  Cell texts are      *)
(* sequences of one-character strings so that strip() and lower() are      *)
(* computed, not assumed.                                                  *)
(***************************************************************************)
EXTENDS Integers, Sequences, FiniteSets, TLC

VARIABLES
    original,         \* the deck as it was before the first run
    saved,            \* the deck as persisted in ppt_file
    excel_df,         \* the worksheet's data rows, in sheet order
    columns,          \* the worksheet's header names
    add_missing_tools,\* parameter of sync_excel_to_ppt
    pc,               \* position in sync_excel_to_ppt / __main__
    run,              \* number of the current invocation of sync_excel_to_ppt
    opened,           \* Presentation(ppt_file) has been called in this run
    presentation,     \* the in-memory deck
    idx,              \* position of the per-record loop in excel_df
    updates_made,
    rows_added,
    not_found_before_adding,
    target_table,     \* identity of the cached table object, or None
    target_slide_idx,
    target_shape,     \* identity of the cached shape object, or None
    target_slide,     \* identity of the cached slide object, or None
    next_id,          \* next fresh object identity
    saves,            \* number of presentation.save calls in this run
    cells_overwritten,\* number of cell.text assignments of the update branch in this run
    doc0,             \* the deck as opened by this run
    prev,             \* snapshot taken before the last loop iteration, with the
                      \* shape the iteration handed to _append_row_by_rebuilding
    lastOp,           \* branch taken by the last loop iteration
    paginated         \* the last loop iteration created a slide

vars == <<original, saved, excel_df, columns, add_missing_tools, pc, run, opened,
          presentation, idx, updates_made, rows_added, not_found_before_adding,
          target_table, target_slide_idx, target_shape, target_slide, next_id,
          saves, cells_overwritten, doc0, prev, lastOp, paginated>>

----------------------------------------------------------------------------
(* Bounds of the model *)
MaxRecords == 2
MaxRuns == 2

(* Program constants *)
MAX_BODY_ROWS == 8
None == 0

----------------------------------------------------------------------------
(* Text: str.strip and str.lower *)
Whitespace == {" ", "\t", "\n"}

LowerOf == [A |-> "a", B |-> "b", C |-> "c", D |-> "d", E |-> "e", F |-> "f",
            G |-> "g", H |-> "h", I |-> "i", J |-> "j", K |-> "k", L |-> "l",
            M |-> "m", N |-> "n", O |-> "o", P |-> "p", Q |-> "q", R |-> "r",
            S |-> "s", T |-> "t", U |-> "u", V |-> "v", W |-> "w", X |-> "x",
            Y |-> "y", Z |-> "z"]

LowerCh(ch) == IF ch \in DOMAIN LowerOf THEN LowerOf[ch] ELSE ch

lower(t) == [i \in 1..Len(t) |-> LowerCh(t[i])]

RECURSIVE lstrip(_)
lstrip(t) == IF t = <<>> THEN <<>>
             ELSE IF Head(t) \in Whitespace THEN lstrip(Tail(t)) ELSE t

RECURSIVE rstrip(_)
rstrip(t) == IF t = <<>> THEN <<>>
             ELSE IF t[Len(t)] \in Whitespace THEN rstrip(SubSeq(t, 1, Len(t) - 1)) ELSE t

strip(t) == rstrip(lstrip(t))

(* required_ppt_cols *)
AI_TOOL == <<"A","I"," ","T","o","o","l">>
TOOL_DESCRIPTION == <<"T","o","o","l"," ","D","e","s","c","r","i","p","t","i","o","n">>
REQUESTOR == <<"R","e","q","u","e","s","t","o","r">>
CURRENT_STATE == <<"C","u","r","r","e","n","t"," ","S","t","a","t","e">>
required_ppt_cols == <<AI_TOOL, TOOL_DESCRIPTION, REQUESTOR, CURRENT_STATE>>

----------------------------------------------------------------------------
(* Deck structure.  A deck is a sequence of slides; a slide is a record    *)
(* [sid, layout, shapes]; a shape is a record [id, orig, has_table, geom,  *)
(* widths, grid].  id is the identity of the shape object (and of its      *)
(* table object); orig names the table a shape descends from through       *)
(* rebuilds.  grid[r][c] is table.cell(r-1, c-1).text.                     *)

NumRows(grid) == Len(grid)
NumCols(grid) == IF Len(grid) = 0 THEN 0 ELSE Len(grid[1])

Positions(pres) ==
    UNION { { <<s, h>> : h \in 1..Len(pres[s].shapes) } : s \in 1..Len(pres) }

ShapeAt(pres, p) == pres[p[1]].shapes[p[2]]

(* document order: slide order, then shape order, then row order *)
Before(p, q) ==
    \/ p[1] < q[1]
    \/ p[1] = q[1] /\ p[2] < q[2]
    \/ p[1] = q[1] /\ p[2] = q[2] /\ Len(p) = 3 /\ p[3] < q[3]

(* variant: the scan keeps the last hit instead of stopping at the first *)
LastOf(S) == CHOOSE p \in S : \A q \in S : q = p \/ Before(q, p)

First(S) == CHOOSE p \in S : \A q \in S : q = p \/ Before(p, q)

(* hdrs.index(col) *)
IndexOf(hdrs, col) ==
    CHOOSE c \in 1..Len(hdrs) : hdrs[c] = col /\ \A d \in 1..(c - 1) : hdrs[d] # col

(* variant: the header texts are compared as they are *)
UnstrippedHeaders(grid) == [c \in 1..NumCols(grid) |-> grid[1][c]]

StrippedHeaders(grid) == [c \in 1..NumCols(grid) |-> strip(grid[1][c])]

(* _table_headers_and_indices: ok = FALSE stands for (None, None) *)
table_headers_and_indices(grid) ==
    IF NumRows(grid) = 0 \/ NumCols(grid) = 0
    THEN [ok |-> FALSE, hdrs |-> <<>>, idx_map |-> <<>>]
    ELSE LET hdrs == StrippedHeaders(grid) IN
         IF ~ \A i \in 1..Len(required_ppt_cols) :
                  \E c \in 1..Len(hdrs) : hdrs[c] = required_ppt_cols[i]
         THEN [ok |-> FALSE, hdrs |-> <<>>, idx_map |-> <<>>]
         ELSE [ok |-> TRUE, hdrs |-> hdrs,
               idx_map |-> [col \in {required_ppt_cols[i] : i \in 1..Len(required_ppt_cols)}
                               |-> IndexOf(hdrs, col)]]

(* the filter of the scan: has_table and headers is not None *)
Qualifies(shape) == shape.has_table /\ table_headers_and_indices(shape.grid).ok

QualifyingPositions(pres) == { p \in Positions(pres) : Qualifies(ShapeAt(pres, p)) }

(* tool_name = (excel_row['Tool'] or "").strip() *)
ToolName(excel_row) == strip(excel_row.Tool)

(* variant: the comparison keeps the case *)
KeyMatchesCaseSensitive(cell_text, tool_name) == strip(cell_text) = tool_name

(* current_tool.lower() == tool_name.lower(), current_tool the stripped cell text *)
KeyMatches(cell_text, tool_name) == lower(strip(cell_text)) = lower(tool_name)

(* variant: only the first qualifying table is scanned *)
MatchPositionsFirstTable(pres, tool_name) ==
    UNION { { <<p[1], p[2], r>> : r \in { r \in 2..NumRows(ShapeAt(pres, p).grid) :
                  KeyMatches(ShapeAt(pres, p).grid[r]
                                 [table_headers_and_indices(ShapeAt(pres, p).grid).idx_map[AI_TOOL]],
                             tool_name) } }
            : p \in { q \in QualifyingPositions(pres) : q = First(QualifyingPositions(pres)) } }

(* the body rows the row scan would stop at *)
MatchPositions(pres, tool_name) ==
    UNION { { <<p[1], p[2], r>> : r \in { r \in 2..NumRows(ShapeAt(pres, p).grid) :
                  KeyMatches(ShapeAt(pres, p).grid[r]
                                 [table_headers_and_indices(ShapeAt(pres, p).grid).idx_map[AI_TOOL]],
                             tool_name) } }
            : p \in QualifyingPositions(pres) }

(* variant: the comparison uses the cell text as it is *)
DiffersUntrimmed(cell_text, new_value) == cell_text # new_value

(* current_desc != new_desc, current_desc the stripped cell text *)
Differs(cell_text, new_value) == strip(cell_text) # new_value

(* one of the three compare-and-overwrite blocks of the update branch *)
UpdateCell(row, col, new_value) ==
    IF Differs(row[col], new_value) THEN [row EXCEPT ![col] = new_value] ELSE row

Changed(row, col, new_value) == IF Differs(row[col], new_value) THEN 1 ELSE 0

(* variant: the update also rewrites the key cell with the record's key *)
UpdateRowRewritingKey(row, col_indices, excel_row) ==
    LET r1 == UpdateCell(row, col_indices[TOOL_DESCRIPTION], strip(excel_row.ServiceUseCase))
        r2 == UpdateCell(r1, col_indices[REQUESTOR], strip(excel_row.Requestor))
        r3 == UpdateCell(r2, col_indices[CURRENT_STATE], strip(excel_row.Status))
    IN  [r3 EXCEPT ![col_indices[AI_TOOL]] = strip(excel_row.Tool)]

(* the update of the matched row *)
UpdateRow(row, col_indices, excel_row) ==
    LET r1 == UpdateCell(row, col_indices[TOOL_DESCRIPTION], strip(excel_row.ServiceUseCase))
        r2 == UpdateCell(r1, col_indices[REQUESTOR], strip(excel_row.Requestor))
    IN  UpdateCell(r2, col_indices[CURRENT_STATE], strip(excel_row.Status))

UpdateCount(row, col_indices, excel_row) ==
      Changed(row, col_indices[TOOL_DESCRIPTION], strip(excel_row.ServiceUseCase))
    + Changed(row, col_indices[REQUESTOR], strip(excel_row.Requestor))
    + Changed(row, col_indices[CURRENT_STATE], strip(excel_row.Status))

(* object lookup by identity *)
SlideIndexOf(pres, sid) == CHOOSE s \in 1..Len(pres) : pres[s].sid = sid

ShapeById(pres, id) ==
    ShapeAt(pres, CHOOSE p \in Positions(pres) : ShapeAt(pres, p).id = id)

RemoveShape(shapes, id) == SelectSeq(shapes, LAMBDA sh : sh.id # id)

(* variant: the lookup never finds the header *)
GetNothing(values_by_header, h) == <<>>

(* values_by_header.get(h, "") *)
Get(values_by_header, h) ==
    IF h \in DOMAIN values_by_header THEN values_by_header[h] ELSE <<>>

(* variant: the captured grid holds the stripped cell texts *)
RebuiltGridStripped(grid, values_by_header) ==
    LET hdrs == StrippedHeaders(grid)
        new_row == [c \in 1..NumCols(grid) |-> Get(values_by_header, hdrs[c])]
    IN  Append([r \in 1..NumRows(grid) |-> [c \in 1..NumCols(grid) |-> strip(grid[r][c])]],
               new_row)

(* the text grid _append_row_by_rebuilding writes into the new table *)
RebuiltGrid(grid, values_by_header) ==
    LET hdrs == StrippedHeaders(grid)
        new_row == [c \in 1..NumCols(grid) |-> Get(values_by_header, hdrs[c])]
    IN  Append(grid, new_row)

(* _append_row_by_rebuilding: the slide after the old shape is removed and *)
(* the new table shape is added at the end of the shape tree               *)
append_row_by_rebuilding(slide, table_shape, values_by_header, new_id) ==
    LET new_shape == [id |-> new_id, orig |-> table_shape.orig, has_table |-> TRUE,
                      geom |-> table_shape.geom, widths |-> table_shape.widths,
                      grid |-> RebuiltGrid(table_shape.grid, values_by_header)]
    IN  [slide EXCEPT !.shapes = Append(RemoveShape(slide.shapes, table_shape.id), new_shape)]

(* _start_new_slide_with_table: the new slide with its header-only table *)
start_new_slide_with_table(src_slide, src_shape, slide_id, shape_id) ==
    [sid |-> slide_id, layout |-> src_slide.layout,
     shapes |-> << [id |-> shape_id, orig |-> shape_id, has_table |-> TRUE,
                    geom |-> src_shape.geom, widths |-> src_shape.widths,
                    grid |-> << StrippedHeaders(src_shape.grid) >>] >>]

(* body_rows >= MAX_BODY_ROWS *)
AtCapacity(grid) == NumRows(grid) - 1 >= MAX_BODY_ROWS

(* _ensure_capacity_or_paginate applied to the cached target t *)
ensure_capacity_or_paginate(pres, t, slide_id, shape_id) ==
    IF t.target_table = None THEN [pres |-> pres, t |-> t, paginated |-> FALSE]
    ELSE IF AtCapacity(ShapeById(pres, t.target_table).grid)
    THEN LET new_slide == start_new_slide_with_table(
                              pres[SlideIndexOf(pres, t.target_slide)],
                              ShapeById(pres, t.target_shape), slide_id, shape_id)
             new_pres == Append(pres, new_slide)
         IN  [pres |-> new_pres,
              t |-> [target_table |-> shape_id, target_shape |-> shape_id,
                     target_slide |-> slide_id, target_slide_idx |-> Len(new_pres)],
              paginated |-> TRUE]
    ELSE [pres |-> pres, t |-> t, paginated |-> FALSE]

(* values_by_header as built from the target table's headers and the record *)
ValuesByHeader(tgt_grid, excel_row) ==
    LET tgt_headers == StrippedHeaders(tgt_grid)
        col_values_from_excel ==
            (AI_TOOL :> ToolName(excel_row)) @@
            (TOOL_DESCRIPTION :> strip(excel_row.ServiceUseCase)) @@
            (REQUESTOR :> strip(excel_row.Requestor)) @@
            (CURRENT_STATE :> strip(excel_row.Status))
    IN  [h \in {tgt_headers[c] : c \in 1..Len(tgt_headers)} |->
            IF h \in DOMAIN col_values_from_excel THEN col_values_from_excel[h] ELSE <<>>]

(* the shape the refresh loop after a rebuild settles on *)
RefreshedShape(slide, old_shape) ==
    LET Q == { h \in 1..Len(slide.shapes) : Qualifies(slide.shapes[h]) }
    IN  IF Q = {} THEN old_shape
        ELSE slide.shapes[CHOOSE h \in Q : \A k \in Q : h <= k].id

(* variant: the scan caches no target *)
CachedTargetNever(pres, t) == t

(* the target reference after the scan has cached the first qualifying table *)
CachedTarget(pres, t) ==
    IF t.target_table = None /\ QualifyingPositions(pres) # {}
    THEN LET p == First(QualifyingPositions(pres)) IN
         [target_table |-> ShapeAt(pres, p).id, target_shape |-> ShapeAt(pres, p).id,
          target_slide |-> pres[p[1]].sid, target_slide_idx |-> p[1]]
    ELSE t

----------------------------------------------------------------------------
(* Inputs: cell texts, worksheet rows and decks the runs are checked on *)
Alpha == <<"A","l","p","h","a">>
AlphaPadded == <<" ","a","l","p","h","a"," ">>
ToolX == <<"T","o","o","l","X">>
ToolXLower == <<"t","o","o","l","x">>
Beta == <<"B","e","t","a">>
Blank == <<" ">>
Desc == <<"D","e","s","c">>
Old == <<"O","l","d">>
New == <<"N","e","w">>
NewPadded == <<"N","e","w"," ">>
Bob == <<"B","o","b">>
BobPadded == <<" ","B","o","b">>
Pending == <<"P","e","n","d","i","n","g">>
Approved == <<"A","p","p","r","o","v","e","d">>
Notes == <<"N","o","t","e","s">>
AiToolPadded == <<" ","A","I"," ","T","o","o","l"," ">>
AiToolLower == <<"a","i"," ","t","o","o","l">>
Digits == <<"1","2","3","4","5","6","7","8","9">>

ExcelRow(tool, desc, requestor, status) ==
    [Tool |-> tool, ServiceUseCase |-> desc, Requestor |-> requestor, Status |-> status]

RecordPool ==
    { ExcelRow(ToolX, Desc, Bob, Approved),
      ExcelRow(ToolX, New, Bob, Approved),
      ExcelRow(AlphaPadded, NewPadded, <<>>, Pending),
      ExcelRow(Beta, Desc, BobPadded, Approved),
      ExcelRow(Blank, Desc, Bob, Approved) }

Datasets == UNION { [1..n -> RecordPool] : n \in 0..MaxRecords }

FullColumns == {"Tool", "Service\nUse Case", "Requestor", "Status"}
ColumnOptions ==
    { FullColumns,
      {"Tool", "Service\n Use Case", "Requestor", "Status"},
      {"Tool", "Service Use Case", "Requestor", "Status"},
      {} }
    \cup { FullColumns \ {c} : c \in FullColumns }

Header4 == <<AI_TOOL, TOOL_DESCRIPTION, REQUESTOR, CURRENT_STATE>>
Header5 == <<REQUESTOR, Notes, AiToolPadded, CURRENT_STATE, TOOL_DESCRIPTION>>
HeaderTwice == <<REQUESTOR, AI_TOOL, AiToolPadded, CURRENT_STATE, TOOL_DESCRIPTION>>
FillRow(n) == << <<"f", Digits[n]>>, Old, Bob, Pending >>
Filled(n) == <<Header4>> \o [i \in 1..n |-> FillRow(i)]

TableShape(id, geom, grid) ==
    [id |-> id, orig |-> id, has_table |-> TRUE, geom |-> geom,
     widths |-> [c \in 1..NumCols(grid) |-> geom + c], grid |-> grid]
TextBox(id) ==
    [id |-> id, orig |-> id, has_table |-> FALSE, geom |-> 0, widths |-> <<>>, grid |-> <<>>]
Slide(sid, layout, shapes) == [sid |-> sid, layout |-> layout, shapes |-> shapes]

NonQualifying(id) ==
    TableShape(id, 3, << <<AiToolLower, TOOL_DESCRIPTION, REQUESTOR, CURRENT_STATE>>,
                         <<ToolX, Old, Bob, Pending>> >>)

DeckEmpty == <<>>
DeckNoTable ==
    << Slide(1, "title", << TextBox(2), NonQualifying(3), TableShape(4, 1, <<>>),
                            TableShape(5, 1, << <<>> >>),
                            TableShape(6, 2, << <<AI_TOOL, REQUESTOR, CURRENT_STATE>>,
                                                <<ToolX, Bob, Pending>> >>) >>) >>
DeckHeaderOnly == << Slide(1, "body", << TableShape(2, 5, <<Header4>>) >>) >>
DeckScenario ==
    << Slide(1, "body", << TextBox(2), NonQualifying(3),
                           TableShape(4, 5, << Header4,
                                               <<ToolX, Old, Bob, Pending>>,
                                               <<Alpha, NewPadded, BobPadded, Pending>>,
                                               <<ToolXLower, New, Bob, Approved>> >>) >>) >>
DeckTwoOnSlide ==
    << Slide(1, "body", << TableShape(2, 5, << Header4, <<Alpha, Old, Bob, Pending>> >>),
                           TableShape(3, 7, << Header5,
                                               <<Bob, Notes, ToolX, Pending, Old>>,
                                               <<Bob, Notes, AlphaPadded, Approved, Desc>> >>) >>) >>
DeckWide ==
    << Slide(1, "wide", << NonQualifying(2),
                           TableShape(3, 7, << Header5,
                                               <<Blank, <<>>, AlphaPadded, Pending, NewPadded>>,
                                               <<Bob, Notes, Blank, Pending, Old>> >>) >>) >>
DeckAlmostFull == << Slide(1, "body", << TableShape(2, 5, Filled(MAX_BODY_ROWS - 1)) >>) >>
DeckAlmostFullTwo ==
    << Slide(1, "body", << TableShape(2, 5, Filled(MAX_BODY_ROWS - 1)),
                           TableShape(3, 7, << HeaderTwice,
                                               <<Bob, Alpha, ToolX, Pending, Old>> >>) >>) >>
DeckFull ==
    << Slide(1, "body", << TextBox(2), TableShape(3, 5, Filled(MAX_BODY_ROWS)) >>),
       Slide(4, "wide", << TableShape(5, 7, << Header5,
                                               <<<<>>, Notes, AlphaPadded, Pending, Old>> >>) >>) >>
DeckFullSecond ==
    << Slide(1, "body", << TableShape(2, 5, <<Header4>>),
                           TableShape(3, 7, Filled(MAX_BODY_ROWS)) >>) >>

Decks == { DeckEmpty, DeckNoTable, DeckHeaderOnly, DeckScenario, DeckTwoOnSlide,
           DeckWide, DeckAlmostFull, DeckAlmostFullTwo, DeckFull, DeckFullSecond }

Max(S) == CHOOSE x \in S : \A y \in S : y <= x

(* an identity no object of the deck carries *)
FreshId(pres) ==
    1 + Max({0} \cup { pres[s].sid : s \in 1..Len(pres) }
                \cup { ShapeAt(pres, p).id : p \in Positions(pres) })

----------------------------------------------------------------------------
(* State machine *)
NoTarget ==
    [target_table |-> None, target_shape |-> None,
     target_slide |-> None, target_slide_idx |-> None]

Target ==
    [target_table |-> target_table, target_shape |-> target_shape,
     target_slide |-> target_slide, target_slide_idx |-> target_slide_idx]

SetTarget(t) ==
    /\ target_table' = t.target_table
    /\ target_shape' = t.target_shape
    /\ target_slide' = t.target_slide
    /\ target_slide_idx' = t.target_slide_idx

Snapshot ==
    [pres |-> presentation, updates_made |-> updates_made, rows_added |-> rows_added,
     not_found_before_adding |-> not_found_before_adding, t |-> Target, idx |-> idx,
     cells_overwritten |-> cells_overwritten, saved |-> saved,
     table_shape |-> TextBox(None)]

(* excel_df.rename(columns={'Service\n Use Case': 'Service\nUse Case'}) *)
RenamedColumns(cols) ==
    { IF c = "Service\n Use Case" THEN "Service\nUse Case" ELSE c : c \in cols }

(* variant: the check looks for the names without the rename *)
missing_cols_unrenamed(cols) == FullColumns \ cols

missing_cols(cols) == FullColumns \ RenamedColumns(cols)

(* variant: the deck is saved whatever the count *)
ShouldSaveAlways(n) == n >= 0

(* if updates_made > 0 *)
ShouldSave(n) == n > 0

(* variant: the flag is not consulted *)
CanAppendIgnoringFlag(add_missing, t) ==
    t.target_table # None /\ t.target_shape # None /\ t.target_slide # None

(* variant: an append counts the record's non-empty fields *)
AppendUpdatesNonEmpty(excel_row) ==
    Cardinality({ f \in {"Tool", "ServiceUseCase", "Requestor", "Status"} :
                     strip(excel_row[f]) # <<>> })

(* updates_made += 4 *)
AppendUpdates(excel_row) == 4

(* Total tools processed: len(excel_df) *)
TotalToolsProcessed == Len(excel_df)

(* add_missing_tools and target_table, target_shape, target_slide are not None *)
CanAppend(add_missing, t) ==
    /\ add_missing
    /\ t.target_table # None /\ t.target_shape # None /\ t.target_slide # None

Init ==
    /\ saved \in Decks
    /\ original = saved
    /\ excel_df \in Datasets
    /\ columns \in ColumnOptions
    /\ add_missing_tools \in BOOLEAN
    /\ pc = "start"
    /\ run = 1
    /\ opened = FALSE
    /\ presentation = <<>>
    /\ idx = 1
    /\ updates_made = 0
    /\ rows_added = 0
    /\ not_found_before_adding = 0
    /\ target_table = None
    /\ target_slide_idx = None
    /\ target_shape = None
    /\ target_slide = None
    /\ next_id = FreshId(saved)
    /\ saves = 0
    /\ cells_overwritten = 0
    /\ doc0 = saved
    /\ prev = [pres |-> <<>>, updates_made |-> 0, rows_added |-> 0,
               not_found_before_adding |-> 0, t |-> NoTarget, idx |-> 1,
               cells_overwritten |-> 0, saved |-> saved, table_shape |-> TextBox(None)]
    /\ lastOp = "none"
    /\ paginated = FALSE

(* the required-column check fails: print the error and return *)
MissingColumns ==
    /\ pc = "start"
    /\ missing_cols(columns) # {}
    /\ pc' = "aborted"
    /\ UNCHANGED <<original, saved, excel_df, columns, add_missing_tools, run, opened,
                   presentation, idx, updates_made, rows_added, not_found_before_adding,
                   target_table, target_slide_idx, target_shape, target_slide, next_id,
                   saves, cells_overwritten, doc0, prev, lastOp, paginated>>

(* the check passes: open the deck and initialise the counters and the target *)
OpenPresentation ==
    /\ pc = "start"
    /\ missing_cols(columns) = {}
    /\ presentation' = saved
    /\ opened' = TRUE
    /\ doc0' = saved
    /\ updates_made' = 0
    /\ rows_added' = 0
    /\ not_found_before_adding' = 0
    /\ SetTarget(NoTarget)
    /\ idx' = 1
    /\ saves' = 0
    /\ cells_overwritten' = 0
    /\ prev' = [pres |-> saved, updates_made |-> 0, rows_added |-> 0,
                not_found_before_adding |-> 0, t |-> NoTarget, idx |-> 1,
                cells_overwritten |-> 0, saved |-> saved, table_shape |-> TextBox(None)]
    /\ lastOp' = "none"
    /\ paginated' = FALSE
    /\ pc' = "loop"
    /\ UNCHANGED <<original, saved, excel_df, columns, add_missing_tools, run, next_id>>

InLoop == pc = "loop" /\ idx <= Len(excel_df)

(* loop iteration: empty key, continue *)
SkipEmptyKey ==
    /\ InLoop
    /\ ToolName(excel_df[idx]) = <<>>
    /\ idx' = idx + 1
    /\ prev' = Snapshot
    /\ lastOp' = "skip"
    /\ paginated' = FALSE
    /\ UNCHANGED <<original, saved, excel_df, columns, add_missing_tools, pc, run, opened,
                   presentation, updates_made, rows_added, not_found_before_adding,
                   target_table, target_slide_idx, target_shape, target_slide, next_id,
                   saves, cells_overwritten, doc0>>

(* loop iteration: the scan finds the tool and updates the row *)
UpdateMatched ==
    /\ InLoop
    /\ LET excel_row == excel_df[idx]
           tool_name == ToolName(excel_row)
           M == MatchPositions(presentation, tool_name)
       IN  /\ tool_name # <<>>
           /\ M # {}
           /\ LET m == First(M)
                  grid == ShapeAt(presentation, m).grid
                  col_indices == table_headers_and_indices(grid).idx_map
                  n == UpdateCount(grid[m[3]], col_indices, excel_row)
              IN  /\ presentation' =
                        [presentation EXCEPT ![m[1]].shapes[m[2]].grid[m[3]] =
                            UpdateRow(grid[m[3]], col_indices, excel_row)]
                  /\ updates_made' = updates_made + n
                  /\ cells_overwritten' = cells_overwritten + n
           /\ SetTarget(CachedTarget(presentation, Target))
    /\ idx' = idx + 1
    /\ prev' = Snapshot
    /\ lastOp' = "update"
    /\ paginated' = FALSE
    /\ UNCHANGED <<original, saved, excel_df, columns, add_missing_tools, pc, run, opened,
                   rows_added, not_found_before_adding, next_id, saves, doc0>>

(* loop iteration: the tool is not found; paginate if needed, append by rebuild *)
AppendMissing ==
    /\ InLoop
    /\ LET excel_row == excel_df[idx]
           tool_name == ToolName(excel_row)
           t1 == CachedTarget(presentation, Target)
       IN  /\ tool_name # <<>>
           /\ MatchPositions(presentation, tool_name) = {}
           /\ CanAppend(add_missing_tools, t1)
           /\ LET ec == ensure_capacity_or_paginate(presentation, t1, next_id, next_id + 1)
                  pres2 == ec.pres
                  t2 == ec.t
                  values_by_header ==
                      ValuesByHeader(ShapeById(pres2, t2.target_table).grid, excel_row)
                  si == SlideIndexOf(pres2, t2.target_slide)
                  new_id == next_id + 2
                  new_slide == append_row_by_rebuilding(
                                   pres2[si], ShapeById(pres2, t2.target_shape),
                                   values_by_header, new_id)
              IN  /\ presentation' = [pres2 EXCEPT ![si] = new_slide]
                  /\ SetTarget([t2 EXCEPT !.target_table = new_id,
                                          !.target_shape =
                                              RefreshedShape(new_slide, t2.target_shape)])
                  /\ paginated' = ec.paginated
                  /\ prev' = [Snapshot EXCEPT
                                 !.table_shape = ShapeById(pres2, t2.target_shape)]
    /\ not_found_before_adding' = not_found_before_adding + 1
    /\ rows_added' = rows_added + 1
    /\ updates_made' = updates_made + AppendUpdates(excel_df[idx])
    /\ next_id' = next_id + 3
    /\ idx' = idx + 1
    /\ lastOp' = "append"
    /\ UNCHANGED <<original, saved, excel_df, columns, add_missing_tools, pc, run, opened,
                   saves, cells_overwritten, doc0>>

(* loop iteration: the tool is not found and cannot be appended *)
NotFound ==
    /\ InLoop
    /\ LET excel_row == excel_df[idx]
           tool_name == ToolName(excel_row)
           t1 == CachedTarget(presentation, Target)
       IN  /\ tool_name # <<>>
           /\ MatchPositions(presentation, tool_name) = {}
           /\ ~ CanAppend(add_missing_tools, t1)
           /\ SetTarget(t1)
    /\ not_found_before_adding' = not_found_before_adding + 1
    /\ idx' = idx + 1
    /\ prev' = Snapshot
    /\ lastOp' = "notfound"
    /\ paginated' = FALSE
    /\ UNCHANGED <<original, saved, excel_df, columns, add_missing_tools, pc, run, opened,
                   presentation, updates_made, rows_added, next_id, saves,
                   cells_overwritten, doc0>>

(* after the loop: save the deck if updates were made, print the summary *)
SaveDecision ==
    /\ pc = "loop"
    /\ idx > Len(excel_df)
    /\ IF ShouldSave(updates_made)
       THEN saved' = presentation /\ saves' = saves + 1
       ELSE UNCHANGED <<saved, saves>>
    /\ pc' = "done"
    /\ UNCHANGED <<original, excel_df, columns, add_missing_tools, run, opened, presentation, idx,
                   updates_made, rows_added, not_found_before_adding, target_table,
                   target_slide_idx, target_shape, target_slide, next_id,
                   cells_overwritten, doc0, prev, lastOp, paginated>>

(* the script is run again on the same workbook and the deck it left behind *)
RunAgain ==
    /\ pc = "done"
    /\ run < MaxRuns
    /\ run' = run + 1
    /\ pc' = "start"
    /\ opened' = FALSE
    /\ UNCHANGED <<original, saved, excel_df, columns, add_missing_tools, presentation, idx,
                   updates_made, rows_added, not_found_before_adding, target_table,
                   target_slide_idx, target_shape, target_slide, next_id, saves,
                   cells_overwritten, doc0, prev, lastOp, paginated>>

Next ==
    \/ MissingColumns
    \/ OpenPresentation
    \/ SkipEmptyKey
    \/ UpdateMatched
    \/ AppendMissing
    \/ NotFound
    \/ SaveDecision
    \/ RunAgain

Spec == Init /\ [][Next]_vars

----------------------------------------------------------------------------
(* Vocabulary of the properties *)
Shapes(pres) == { ShapeAt(pres, p) : p \in Positions(pres) }
Tables(pres) == { sh \in Shapes(pres) : sh.has_table }

(* a key as the matching sees it: trimmed and lower-cased *)
Normalized(t) == lower(strip(t))

(* the body rows of the qualifying tables and their key cells *)
RowPositions(pres) ==
    UNION { { <<p[1], p[2], r>> : r \in 2..NumRows(ShapeAt(pres, p).grid) }
            : p \in QualifyingPositions(pres) }

KeyCell(pres, m) ==
    LET grid == ShapeAt(pres, m).grid
    IN  grid[m[3]][IndexOf(StrippedHeaders(grid), AI_TOOL)]

RowCounts(pres) == { <<sh.orig, NumRows(sh.grid), NumCols(sh.grid)>> : sh \in Tables(pres) }

NoDuplicateRows(pres) ==
    \A m, n \in RowPositions(pres) :
        m # n => Normalized(KeyCell(pres, m)) # Normalized(KeyCell(pres, n))

StrippedRecord(r) ==
    <<strip(r.ServiceUseCase), strip(r.Requestor), strip(r.Status)>>

NoConflictingRecords(df) ==
    \A i, j \in 1..Len(df) :
        Normalized(df[i].Tool) = Normalized(df[j].Tool)
            => StrippedRecord(df[i]) = StrippedRecord(df[j])

InLaterRun == run >= 2 /\ pc \in {"loop", "done"}

SecondRunChangesNothing ==
    /\ updates_made = 0
    /\ rows_added = 0
    /\ Len(presentation) = Len(doc0)
    /\ RowCounts(presentation) = RowCounts(doc0)

(* C1 as stated: for any deck and any dataset, a second run with the same  *)
(* dataset on the deck the first run produced makes zero field changes,    *)
(* adds no row and no slide, and leaves every table's row count as it was. *)
C1_IdempotentAnyDataset == InLaterRun => SecondRunChangesNothing

(* C1 amended: the second run changes nothing provided that records of the *)
(* dataset sharing a key carry the same trimmed values and that no two     *)
(* body rows of qualifying tables of the deck share a key.                 *)
C1_Idempotent ==
    (InLaterRun /\ NoConflictingRecords(excel_df) /\ NoDuplicateRows(original))
        => SecondRunChangesNothing

(* a second run has finished on a deck the first run updated, extended and paginated *)
C1_Witness ==
    /\ run = 2 /\ pc = "done"
    /\ NoConflictingRecords(excel_df) /\ NoDuplicateRows(original)
    /\ Len(doc0) > Len(original)
    /\ \E i \in 1..Len(excel_df) : ToolName(excel_df[i]) # <<>>
    /\ lastOp = "update"

----------------------------------------------------------------------------
(* the record the last loop iteration processed, and what the scan saw *)
LastRecord == excel_df[prev.idx]
Processed == lastOp \in {"update", "append", "notfound"}
TargetBefore == CachedTarget(prev.pres, prev.t)
BodyRows(grid) == NumRows(grid) - 1
Descendants(pres, old) == { sh \in Tables(pres) : sh.orig = old.orig }

(* C2 as stated: an append whose receiving table already holds T body rows *)
(* first creates a slide with a header-only table and puts the row there,  *)
(* and no table that held T or more body rows ever gains a row.            *)
C2_PaginationTrigger ==
    lastOp = "append" =>
        /\ BodyRows(ShapeById(prev.pres, TargetBefore.target_shape).grid) >= MAX_BODY_ROWS
              => /\ paginated
                 /\ Len(presentation) = Len(prev.pres) + 1
                 /\ NumRows(prev.table_shape.grid) = 1
                 /\ prev.table_shape \notin Shapes(prev.pres)
                 /\ Tables(<<presentation[Len(presentation)]>>)
                        = { ShapeById(presentation, target_table) }
                 /\ NumRows(ShapeById(presentation, target_table).grid) = 2
        /\ \A old \in Tables(prev.pres) :
              BodyRows(old.grid) >= MAX_BODY_ROWS
                  => \A sh \in Descendants(presentation, old) :
                         NumRows(sh.grid) = NumRows(old.grid)

(* C3: the table _append_row_by_rebuilding returns has one more row and    *)
(* the same columns as the table it was given, every prior row (header     *)
(* included) keeps its cell texts in the same row and column order, and    *)
(* the new row is the last one.                                            *)
C3_RebuildPreservesContent ==
    lastOp = "append" =>
        LET old == prev.table_shape.grid
            new == ShapeById(presentation, target_table).grid
        IN  /\ NumRows(new) = NumRows(old) + 1
            /\ NumCols(new) = NumCols(old)
            /\ \A r \in 1..NumRows(old) : new[r] = old[r]
            /\ Len(new[NumRows(new)]) = NumCols(old)
            /\ new[NumRows(new)][IndexOf(StrippedHeaders(old), AI_TOOL)] = ToolName(LastRecord)

(* a table with padded header and body texts and five columns has been rebuilt *)
C3_Witness ==
    /\ lastOp = "append"
    /\ NumRows(prev.table_shape.grid) = 3
    /\ NumCols(prev.table_shape.grid) = 5
    /\ prev.table_shape.grid[1][3] = AiToolPadded
    /\ prev.table_shape.grid[2][5] = NewPadded
    /\ NumRows(ShapeById(presentation, target_table).grid) = 4

(* C4: a record is updated in place, and not appended, exactly when some   *)
(* body row of a qualifying table carries its key up to trimming and case. *)
C4_KeyMatching ==
    Processed =>
        /\ lastOp = "update"
              <=> \E m \in RowPositions(prev.pres) :
                      Normalized(KeyCell(prev.pres, m)) = Normalized(LastRecord.Tool)
        /\ lastOp = "update"
              => /\ rows_added = prev.rows_added
                 /\ Len(presentation) = Len(prev.pres)
                 /\ RowCounts(presentation) = RowCounts(prev.pres)

(* the record keyed " alpha " has been matched with a row keyed "Alpha" *)
C4_Witness ==
    /\ lastOp = "update"
    /\ LastRecord.Tool = AlphaPadded
    /\ KeyCell(prev.pres, First(MatchPositions(prev.pres, ToolName(LastRecord)))) = Alpha

(* the three non-key columns with the record's trimmed values *)
RecordValues(r) ==
    (TOOL_DESCRIPTION :> strip(r.ServiceUseCase)) @@
    (REQUESTOR :> strip(r.Requestor)) @@
    (CURRENT_STATE :> strip(r.Status))

(* C5: an update overwrites exactly the non-key cells of the matched row   *)
(* whose trimmed text differs from the record's trimmed value, counts each *)
(* of them once, and leaves the key cell, every other cell and the row     *)
(* count as they were.                                                     *)
C5_UpdateMatchedRow ==
    lastOp = "update" =>
        \E m \in RowPositions(prev.pres) :
            LET old == ShapeAt(prev.pres, m).grid
                hdrs == StrippedHeaders(old)
                vals == RecordValues(LastRecord)
                cols == [h \in DOMAIN vals |-> IndexOf(hdrs, h)]
                differing == { h \in DOMAIN vals : strip(old[m[3]][cols[h]]) # vals[h] }
                expected == [c \in 1..Len(old[m[3]]) |->
                                IF \E h \in differing : cols[h] = c
                                THEN vals[CHOOSE h \in differing : cols[h] = c]
                                ELSE old[m[3]][c]]
            IN  /\ Normalized(KeyCell(prev.pres, m)) = Normalized(LastRecord.Tool)
                /\ presentation = [prev.pres EXCEPT ![m[1]].shapes[m[2]].grid[m[3]] = expected]
                /\ KeyCell(presentation, m) = KeyCell(prev.pres, m)
                /\ updates_made = prev.updates_made + Cardinality(differing)
                /\ NumRows(ShapeAt(presentation, m).grid) = NumRows(old)

(* row [ToolX, Old, Bob, Pending] met description New, status Approved: 2 changes *)
C5_Witness ==
    /\ lastOp = "update"
    /\ LastRecord = ExcelRow(ToolX, New, Bob, Approved)
    /\ \E m \in RowPositions(prev.pres) :
          /\ ShapeAt(prev.pres, m).grid[m[3]] = <<ToolX, Old, Bob, Pending>>
          /\ ShapeAt(presentation, m).grid[m[3]] = <<ToolX, New, Bob, Approved>>
    /\ updates_made = prev.updates_made + 2

----------------------------------------------------------------------------
RowEquals(pres, m, r) ==
    LET grid == ShapeAt(pres, m).grid
        hdrs == StrippedHeaders(grid)
    IN  \A h \in DOMAIN RecordValues(r) :
            strip(grid[m[3]][IndexOf(hdrs, h)]) = RecordValues(r)[h]

MatchingRows(pres, r) ==
    { m \in RowPositions(pres) : Normalized(KeyCell(pres, m)) = Normalized(r.Tool) }

InRun == pc \in {"loop", "done"}

RunChangedNothing ==
    /\ cells_overwritten = 0
    /\ presentation = doc0
    /\ updates_made = 0
    /\ rows_added = 0
    /\ saves = 0
    /\ saved = doc0

(* C6 as stated: if every record with a non-empty key matches a row whose  *)
(* three non-key fields equal the record's trimmed values, the run writes  *)
(* no cell, changes no slide, row or column count, counts no update and no *)
(* added row, and does not save.                                           *)
C6_NoOpSomeMatchingRow ==
    (/\ InRun
     /\ \A i \in 1..Len(excel_df) :
           ToolName(excel_df[i]) # <<>>
               => \E m \in MatchingRows(doc0, excel_df[i]) : RowEquals(doc0, m, excel_df[i]))
        => RunChangedNothing

(* C6 amended: the same, when for every record with a non-empty key the    *)
(* first row in scan order that matches it already equals the record.      *)
C6_NoOp ==
    (/\ InRun
     /\ \A i \in 1..Len(excel_df) :
           ToolName(excel_df[i]) # <<>>
               => /\ MatchingRows(doc0, excel_df[i]) # {}
                  /\ RowEquals(doc0, First(MatchingRows(doc0, excel_df[i])), excel_df[i]))
        => RunChangedNothing

(* a run has matched a record against a row that already equalled it, and ended *)
C6_Witness ==
    /\ pc = "done"
    /\ lastOp = "update"
    /\ \A i \in 1..Len(excel_df) :
          /\ ToolName(excel_df[i]) # <<>>
          /\ MatchingRows(doc0, excel_df[i]) # {}
          /\ RowEquals(doc0, First(MatchingRows(doc0, excel_df[i])), excel_df[i])
    /\ ShapeAt(doc0, First(MatchingRows(doc0, LastRecord))).grid[2][5] = NewPadded

(* the row an append writes for record r under the stripped headers hdrs *)
ExpectedNewRow(hdrs, r) ==
    [c \in 1..Len(hdrs) |->
        IF hdrs[c] = AI_TOOL THEN strip(r.Tool)
        ELSE IF hdrs[c] \in DOMAIN RecordValues(r) THEN RecordValues(r)[hdrs[c]]
        ELSE <<>>]

(* C7 as stated: an append while the target table holds fewer than T body  *)
(* rows creates no slide, grows the target table by exactly one row, and   *)
(* that last row holds the record's trimmed values under the four headers  *)
(* and the empty string under every other header.                          *)
C7_AppendBelowCapacity ==
    LET target == ShapeById(prev.pres, TargetBefore.target_table) IN
    (lastOp = "append" /\ BodyRows(target.grid) < MAX_BODY_ROWS)
        => /\ ~ paginated
           /\ Len(presentation) = Len(prev.pres)
           /\ \E sh \in Tables(presentation) :
                 /\ Descendants(presentation, target) = {sh}
                 /\ NumRows(sh.grid) = NumRows(target.grid) + 1
                 /\ sh.grid[NumRows(sh.grid)]
                        = ExpectedNewRow(StrippedHeaders(target.grid), LastRecord)

(* C8 as stated: during a run, a qualifying table of the opened deck other *)
(* than the first in document order never gains a row.                     *)
C8_AppendTargetSelection ==
    InRun =>
        \A p \in QualifyingPositions(doc0) :
            p # First(QualifyingPositions(doc0))
                => \A sh \in Descendants(presentation, ShapeAt(doc0, p)) :
                       NumRows(sh.grid) = NumRows(ShapeAt(doc0, p).grid)

(* C9: a run that passed the field check saves exactly once, at its end,   *)
(* iff updates_made > 0; otherwise the persisted deck stays as it was; and *)
(* nothing is saved while records are still being processed.               *)
C9_PersistenceDecision ==
    /\ pc = "loop" => saves = 0 /\ saved = doc0
    /\ pc = "done" =>
          /\ saves = (IF updates_made > 0 THEN 1 ELSE 0)
          /\ updates_made > 0 => saved = presentation
          /\ updates_made = 0 => saved = doc0

(* a run has ended with changes and has saved the changed deck *)
C9_Witness ==
    /\ pc = "done"
    /\ updates_made > 0
    /\ saves = 1
    /\ saved # doc0

(* C10: a record that matches no row while no qualifying table exists or   *)
(* appending is disabled is counted as not found, changes nothing in the   *)
(* deck and neither rows_added nor updates_made, and the loop goes on.     *)
C10_Unappendable ==
    /\ (/\ Processed
        /\ MatchingRows(prev.pres, LastRecord) = {}
        /\ (QualifyingPositions(prev.pres) = {} \/ ~ add_missing_tools))
          => lastOp = "notfound"
    /\ lastOp = "notfound" =>
          /\ not_found_before_adding = prev.not_found_before_adding + 1
          /\ presentation = prev.pres
          /\ rows_added = prev.rows_added
          /\ updates_made = prev.updates_made
          /\ idx = prev.idx + 1
    /\ pc = "done" => idx = Len(excel_df) + 1

(* two records in a row went unappended: one run with appending disabled *)
(* on a deck that has a qualifying table                                  *)
C10_Witness ==
    /\ pc = "done"
    /\ lastOp = "notfound"
    /\ not_found_before_adding = 2
    /\ ~ add_missing_tools
    /\ QualifyingPositions(presentation) # {}

----------------------------------------------------------------------------
NonEmptyKeyRecords == { i \in 1..Len(excel_df) : strip(excel_df[i].Tool) # <<>> }

(* C11 as stated: a record whose key is empty after trimming changes       *)
(* nothing in the deck, leaves the cached target as it was and is counted  *)
(* in no counter: not in updates_made, rows_added or the not-found count,  *)
(* nor in the processed-records count of the run summary.                  *)
C11_EmptyKeySkipped ==
    /\ (Processed \/ lastOp = "skip")
          => (lastOp = "skip" <=> strip(LastRecord.Tool) = <<>>)
    /\ lastOp = "skip" =>
          /\ presentation = prev.pres
          /\ Target = prev.t
          /\ updates_made = prev.updates_made
          /\ rows_added = prev.rows_added
          /\ not_found_before_adding = prev.not_found_before_adding
    /\ pc = "done" => TotalToolsProcessed = Cardinality(NonEmptyKeyRecords)

(* the four dataset field names, the description in either spelling *)
RequiredFieldsPresent(cols) ==
    /\ "Tool" \in cols
    /\ "Service\nUse Case" \in cols \/ "Service\n Use Case" \in cols
    /\ "Requestor" \in cols
    /\ "Status" \in cols

(* C12: when one of the four required dataset field names is absent the    *)
(* run ends before the deck is opened: no record is processed, nothing is  *)
(* changed or saved; when all four are present, the description under      *)
(* either spelling, the run is not ended by the field check.               *)
C12_MissingFieldsFatal ==
    /\ ~ RequiredFieldsPresent(columns) =>
          /\ pc \in {"start", "aborted"}
          /\ ~ opened
          /\ presentation = <<>>
          /\ saved = original
          /\ saves = 0
          /\ idx = 1
          /\ lastOp = "none"
          /\ updates_made = 0 /\ rows_added = 0 /\ not_found_before_adding = 0
    /\ RequiredFieldsPresent(columns) => pc # "aborted"

(* a run has ended at the field check because Status is absent *)
C12_Witness ==
    /\ pc = "aborted"
    /\ columns = {"Tool", "Service\nUse Case", "Requestor"}
    /\ Len(excel_df) > 0
    /\ ~ opened

----------------------------------------------------------------------------
(* C13 as stated: whenever a target is cached, the cached shape is the     *)
(* shape that owns the cached table, the cached slide contains that shape, *)
(* and the cached slide index is that slide's position in the deck.        *)
C13_TargetConsistency ==
    (InRun /\ target_table # None) =>
        /\ target_shape = target_table
        /\ \E s \in 1..Len(presentation) :
              /\ presentation[s].sid = target_slide
              /\ target_slide_idx = s
              /\ \E h \in 1..Len(presentation[s].shapes) :
                    /\ presentation[s].shapes[h].id = target_shape
                    /\ presentation[s].shapes[h].has_table

(* the earliest position of a set in slide, shape and row order *)
Earliest(S) == CHOOSE p \in S : \A q \in S \ {p} : Before(p, q)

(* the body rows of the deck before the last iteration whose text the iteration changed *)
ChangedRows ==
    UNION { { <<old.orig, r>> : r \in { r \in 2..NumRows(old.grid) :
                  \/ Descendants(presentation, old) = {}
                  \/ \E sh \in Descendants(presentation, old) :
                         NumRows(sh.grid) < r \/ sh.grid[r] # old.grid[r] } }
            : old \in Tables(prev.pres) }

(* C14: a record changes the text of at most one body row of the deck, and *)
(* that row is the first one, in slide, shape and row order at the time of *)
(* the scan, whose key matches; every other row stays as it was.           *)
C14_OnlyFirstDuplicateUpdated ==
    (Processed \/ lastOp = "skip") =>
        /\ Cardinality(ChangedRows) <= 1
        /\ ChangedRows # {} =>
              /\ lastOp = "update"
              /\ LET m == Earliest(MatchingRows(prev.pres, LastRecord))
                 IN  ChangedRows = { <<ShapeAt(prev.pres, m).orig, m[3]>> }

(* a record met two rows carrying its key, in two tables; the first was    *)
(* rewritten, the second still differs from the record                     *)
C14_Witness ==
    /\ lastOp = "update"
    /\ ChangedRows # {}
    /\ \E m, n \in MatchingRows(prev.pres, LastRecord) :
          /\ <<m[1], m[2]>> # <<n[1], n[2]>>
          /\ m = Earliest(MatchingRows(prev.pres, LastRecord))
          /\ ~ RowEquals(presentation, n, LastRecord)
          /\ RowEquals(presentation, m, LastRecord)

(* C15 as stated: a pagination adds one slide at the end, with the layout  *)
(* of the target slide and a one-row table that has the column count, the  *)
(* trimmed headers, the geometry and the column widths of the current      *)
(* target table; slides and the old target's rows stay as they were; the   *)
(* target is the new table before the append; and a slide is created only  *)
(* so: at most one per record, never for a matched record and never while  *)
(* the target has fewer than T body rows.                                  *)
C15_PaginationClone ==
    /\ (Processed \/ lastOp = "skip") =>
          /\ Len(presentation) = Len(prev.pres) + (IF paginated THEN 1 ELSE 0)
          /\ \A s \in 1..Len(prev.pres) : presentation[s].sid = prev.pres[s].sid
          /\ paginated => lastOp = "append"
    /\ paginated =>
          LET target == ShapeById(prev.pres, TargetBefore.target_table)
              old_slide == prev.pres[SlideIndexOf(prev.pres, TargetBefore.target_slide)]
              new_slide == presentation[Len(presentation)]
              clone == prev.table_shape
          IN  /\ BodyRows(target.grid) >= MAX_BODY_ROWS
              /\ new_slide.layout = old_slide.layout
              /\ NumRows(clone.grid) = 1
              /\ clone.grid[1] = StrippedHeaders(target.grid)
              /\ clone.geom = target.geom
              /\ clone.widths = target.widths
              /\ \A s \in 1..Len(prev.pres) : presentation[s] = prev.pres[s]
              /\ target_slide = new_slide.sid
              /\ target_slide_idx = Len(presentation)
              /\ Len(new_slide.shapes) = 1
              /\ new_slide.shapes[1].id = target_table
              /\ new_slide.shapes[1].orig = clone.orig
              /\ new_slide.shapes[1].grid
                     = <<clone.grid[1], ExpectedNewRow(clone.grid[1], LastRecord)>>

----------------------------------------------------------------------------
(* C16: an append adds 1 to rows_added and exactly 4 to updates_made, so   *)
(* updates_made is always the number of cells overwritten by updates plus  *)
(* 4 * rows_added; a matched record adds nothing to the not-found count or *)
(* to rows_added; rows_added never exceeds the not-found count.            *)
C16_CounterAccounting ==
    /\ InRun =>
          /\ updates_made = cells_overwritten + 4 * rows_added
          /\ rows_added <= not_found_before_adding
    /\ lastOp = "append" =>
          /\ rows_added = prev.rows_added + 1
          /\ updates_made = prev.updates_made + 4
          /\ cells_overwritten = prev.cells_overwritten
    /\ lastOp = "update" =>
          /\ rows_added = prev.rows_added
          /\ not_found_before_adding = prev.not_found_before_adding

(* a record with an empty requestor has been appended and counted as 4 *)
C16_Witness ==
    /\ lastOp = "append"
    /\ strip(LastRecord.Requestor) = <<>>
    /\ rows_added = 2
    /\ updates_made = 8
    /\ not_found_before_adding = 2

(* a table's header row carries the four required names *)
HeaderMatch(grid) ==
    /\ Len(grid) >= 1
    /\ Len(grid[1]) >= 1
    /\ \A name \in {AI_TOOL, TOOL_DESCRIPTION, REQUESTOR, CURRENT_STATE} :
          \E c \in 1..Len(grid[1]) : strip(grid[1][c]) = name

(* C17: _table_headers_and_indices accepts a table iff it has a row and a  *)
(* column and each required name equals some trimmed header text exactly;  *)
(* it then maps each name to the first column carrying it; a table it      *)
(* rejects is never updated, rebuilt or cached as target.                  *)
C17_HeaderMatcher ==
    /\ \A sh \in Tables(saved) \cup Tables(presentation) :
          LET res == table_headers_and_indices(sh.grid) IN
          /\ res.ok <=> HeaderMatch(sh.grid)
          /\ res.ok =>
                /\ Len(res.hdrs) = Len(sh.grid[1])
                /\ \A c \in 1..Len(res.hdrs) : res.hdrs[c] = strip(sh.grid[1][c])
                /\ \A name \in {AI_TOOL, TOOL_DESCRIPTION, REQUESTOR, CURRENT_STATE} :
                      /\ strip(sh.grid[1][res.idx_map[name]]) = name
                      /\ \A d \in 1..(res.idx_map[name] - 1) : strip(sh.grid[1][d]) # name
    /\ InRun =>
          \A sh \in Tables(doc0) :
              ~ HeaderMatch(sh.grid) =>
                  /\ sh \in Shapes(presentation)
                  /\ target_table # sh.id
                  /\ target_shape # sh.id

(* a record keyed ToolX was processed on a deck whose only ToolX rows sit  *)
(* in tables with a lower-case or missing header, and was not found        *)
C17_Witness ==
    /\ lastOp = "notfound"
    /\ add_missing_tools
    /\ strip(LastRecord.Tool) = ToolX
    /\ \E sh \in Tables(presentation) :
          /\ ~ HeaderMatch(sh.grid)
          /\ Len(sh.grid) = 2
          /\ sh.grid[1][1] = AiToolLower
          /\ sh.grid[2][1] = ToolX
    /\ \E sh \in Tables(presentation) : sh.grid = <<>>

(* the last record of the dataset carrying the key of record i *)
LastWithKey(i) ==
    excel_df[Max({ j \in 1..Len(excel_df) :
                     Normalized(excel_df[j].Tool) = Normalized(excel_df[i].Tool) })]

C19_NoDuplicateIntroduced ==
    (InRun /\ NoDuplicateRows(doc0)) => NoDuplicateRows(presentation)

(* a dataset repeating a key ran on a duplicate-free deck, with a pagination *)
C19_Witness ==
    /\ pc = "done"
    /\ NoDuplicateRows(doc0)
    /\ Len(excel_df) = 2
    /\ Normalized(excel_df[1].Tool) = Normalized(excel_df[2].Tool)
    /\ rows_added = 1
    /\ Len(presentation) > Len(doc0)

====
